---- MODULE Spec2Model ----
(***************************************************************************)
(* GNN-TAMP: scene-file parsing (graph_processor.py), the greedy-peel      *)
(* sequence planner (planner.py), the orchestrator loop (main.py) and the  *)
(* dataset generator (generate_dataset.py).                                *)
(*                                                                         *)
(* Lengths are integers in tenths of a unit (cube side 0.8 is 8).  A       *)
(* vector is a triple <<x, y, z>>.  A Python dict is a sequence of         *)
(* <<key, value>> pairs in insertion order.                                *)
(***************************************************************************)
EXTENDS Integers, Sequences, FiniteSets, TLC

\* Largest number of objects in a scene file / instance.
MaxObjects == 3

\* Largest num_objects given to generate_instance and the pyramid.
MaxStackObjects == 4

\* generate_dataset.py: CUBE_SIZE = 0.8, in tenths.
CUBE_SIZE == 8

VARIABLES
    \* ---- process_g_file (graph_processor.py) ----
    g_content,              \* the lines of the scene file being parsed
    fpc,                    \* position inside process_g_file
    object_positions,       \* dict obj_id -> position
    object_transformations, \* dict obj_id -> <<base_obj_id, translation>>
    G,                      \* the networkx DiGraph
    \* ---- main (main.py) ----
    pc,                     \* position inside main()
    target,                 \* the scene file in the target folder
    plan,                   \* the tuple (building_order, updated_graph)
    building_order,
    num_objects,
    objective_realized,
    last_state,
    states,
    checkpoint_counter,
    obj_index,
    ret,                    \* feasibility flag of the latest solve
    graph,                  \* the batch object bound to `graph`
    config,                 \* frame state last set in the execution configuration
    \* ---- create_plan (planner.py) ----
    ppc,                    \* position inside create_plan
    option,
    target_pyg,
    target_pyg_copy,
    original_indices,
    removal_order,
    result,                 \* the returned tuple
    scorer,                 \* the loaded model: batch -> argmax node, as far as queried
    entry,                  \* the batch create_plan was entered with, as it was then
    \* ---- observation of the run ----
    optimized,              \* object indices passed to optimize() so far
    solves,                 \* feasibility flags the solver has returned so far
    fresh,                  \* an optimize() call happened since ret was last tested
    last_test,              \* outcome of the latest test of ret.feasible
    plans_in_iter,          \* create_plan calls in the current loop iteration
    \* ---- generate_dataset.py ----
    gpc,                    \* position inside the generator
    pattern,                \* which generator runs
    gen_n,                  \* num_objects of generate_instance
    objects,
    all_groupings,
    sampled_groupings,
    group,                  \* the group being removed, and how far
    out_file                \* the records written to the file so far

parseVars == <<g_content, fpc, object_positions, object_transformations, G>>
mainVars == <<pc, target, plan, building_order, num_objects, objective_realized,
              last_state, states, checkpoint_counter, obj_index, ret, graph, config>>
planVars == <<ppc, option, target_pyg, target_pyg_copy, original_indices,
              removal_order, result, scorer, entry>>
obsVars == <<optimized, solves, fresh, last_test, plans_in_iter>>
genVars == <<gpc, pattern, gen_n, objects, all_groupings, sampled_groupings,
             group, out_file>>
vars == <<parseVars, mainVars, planVars, obsVars, genVars>>

\* An unbound Python name (or None) is <<>>, a bound one <<value>>.
Unbound == <<>>
Bound(v) == <<v>>
Val(x) == x[1]

-----------------------------------------------------------------------------
(* Vectors *)

VecAdd(a, b) == <<a[1] + b[1], a[2] + b[2], a[3] + b[3]>>
VecSub(a, b) == <<a[1] - b[1], a[2] - b[2], a[3] - b[3]>>
VecNeg(a) == <<-a[1], -a[2], -a[3]>>

(* Python dicts, insertion ordered *)

DictKeys(d) == {d[i][1] : i \in 1..Len(d)}
DictHas(d, k) == k \in DictKeys(d)
DictGet(d, k) == d[CHOOSE i \in 1..Len(d) : d[i][1] = k][2]
DictSet(d, k, v) ==
    IF DictHas(d, k)
    THEN [i \in 1..Len(d) |-> IF d[i][1] = k THEN <<k, v>> ELSE d[i]]
    ELSE Append(d, <<k, v>>)

-----------------------------------------------------------------------------
(* Scene files.  A line is an absolute-pose record                          *)
(*   object<id>: { X: [x, y, z, ...] ... }                                  *)
(* or a parent-relative record                                              *)
(*   object<id>(object<parent>): { Q: "t(tx ty tz) d(...)" ... }.           *)

AbsRecord(id, X) == [kind |-> "X", id |-> id, parent |-> 0, v |-> X]
RelRecord(id, parent, t) == [kind |-> "Q", id |-> id, parent |-> parent, v |-> t]

\* position_pattern / transform_pattern: which lines each regex matches.
position_match(line) == line.kind = "X"
transform_match(line) == line.kind = "Q"

\* The lines loop of process_g_file, from line i on.
RECURSIVE ParseLines(_, _, _, _)
ParseLines(lines, i, positions, transformations) ==
    IF i > Len(lines) THEN <<positions, transformations>>
    ELSE LET line == lines[i]
             p == IF position_match(line)
                  THEN DictSet(positions, line.id - 1, line.v)
                  ELSE positions
             t == IF transform_match(line)
                  THEN DictSet(transformations, line.id - 1,
                               <<line.parent - 1, line.v>>)
                  ELSE transformations
         IN ParseLines(lines, i + 1, p, t)

\* "Update positions with transformations", from item i on.
RECURSIVE ResolveFromOrigin(_, _, _)
ResolveFromOrigin(transformations, i, positions) ==
    IF i > Len(transformations) THEN positions
    ELSE ResolveFromOrigin(transformations, i + 1,
            DictSet(positions, transformations[i][1],
                    IF DictHas(positions, transformations[i][2][1])
                    THEN VecAdd(DictGet(positions, transformations[i][2][1]),
                                transformations[i][2][2])
                    ELSE transformations[i][2][2]))
RECURSIVE ResolveTransforms(_, _, _)
ResolveTransforms(transformations, i, positions) ==
    IF i > Len(transformations) THEN positions
    ELSE LET obj_id == transformations[i][1]
             base_obj_id == transformations[i][2][1]
             transformation == transformations[i][2][2]
         IN ResolveTransforms(transformations, i + 1,
                IF DictHas(positions, base_obj_id)
                THEN DictSet(positions, obj_id,
                             VecAdd(DictGet(positions, base_obj_id), transformation))
                ELSE positions)

(* networkx DiGraph: nodes in insertion order, edges in insertion order.    *)

EmptyGraph == [nodes |-> <<>>, edges |-> <<>>]

NodeSet(g) == {g.nodes[i] : i \in 1..Len(g.nodes)}
has_edge(g, u, v) == \E i \in 1..Len(g.edges) : g.edges[i].u = u /\ g.edges[i].v = v
EdgeWeight(g, u, v) ==
    g.edges[CHOOSE i \in 1..Len(g.edges) : g.edges[i].u = u /\ g.edges[i].v = v].w

AddNode(nodes, u) == IF \E i \in 1..Len(nodes) : nodes[i] = u THEN nodes ELSE Append(nodes, u)

add_edge(g, u, v, w) ==
    [nodes |-> AddNode(AddNode(g.nodes, u), v),
     edges |-> IF has_edge(g, u, v)
               THEN [i \in 1..Len(g.edges) |->
                        IF g.edges[i].u = u /\ g.edges[i].v = v
                        THEN [u |-> u, v |-> v, w |-> w] ELSE g.edges[i]]
               ELSE Append(g.edges, [u |-> u, v |-> v, w |-> w])]

IsNotEdge(e, u, v) == ~(e.u = u /\ e.v = v)
remove_edge(g, u, v) ==
    [nodes |-> g.nodes,
     edges |-> SelectSeq(g.edges, LAMBDA e : IsNotEdge(e, u, v))]

\* G.edges: by source node in node order, each node's out-edges in insertion order.
RECURSIVE EdgesFrom(_, _)
EdgesFrom(g, i) ==
    IF i > Len(g.nodes) THEN <<>>
    ELSE SelectSeq(g.edges, LAMBDA e : e.u = g.nodes[i]) \o EdgesFrom(g, i + 1)
GraphEdges(g) == EdgesFrom(g, 1)

\* "Add edges considering the pair only once": the double loop, from (i, j) on.
RECURSIVE AddPairEdges(_, _, _, _)
AddPairEdges(positions, i, j, g) ==
    IF i > Len(positions) THEN g
    ELSE IF j > Len(positions) THEN AddPairEdges(positions, i + 1, 1, g)
    ELSE LET start_id == positions[i][1]
             end_id == positions[j][1]
             relative_pos == VecSub(positions[j][2], positions[i][2])
         IN AddPairEdges(positions, i, j + 1,
                IF start_id < end_id
                   /\ (~has_edge(g, end_id, start_id)
                       \/ VecNeg(relative_pos) # EdgeWeight(g, end_id, start_id))
                THEN add_edge(g, start_id, end_id, relative_pos)
                ELSE g)

\* One edge of the normalisation loop.
FlipKeepWeight(g, e) ==
    IF e.w[3] < 0 THEN add_edge(remove_edge(g, e.u, e.v), e.v, e.u, e.w) ELSE g
FlipKeepEdge(g, e) ==
    IF e.w[3] < 0 THEN add_edge(g, e.v, e.u, VecNeg(e.w)) ELSE g
Flip(g, e) ==
    IF e.w[3] < 0 THEN add_edge(remove_edge(g, e.u, e.v), e.v, e.u, VecNeg(e.w)) ELSE g

\* "Ensure edges point upward": over the snapshot list(G.edges(data='weight')).
RECURSIVE FlipDownward(_, _, _)
FlipDownward(snapshot, i, g) ==
    IF i > Len(snapshot) THEN g
    ELSE FlipDownward(snapshot, i + 1, Flip(g, snapshot[i]))

\* process_g_file as a whole: (G, object_positions).
process_g_file(lines) ==
    LET parsed == ParseLines(lines, 1, <<>>, <<>>)
        positions == ResolveTransforms(parsed[2], 1, parsed[1])
        g0 == AddPairEdges(positions, 1, 1, EmptyGraph)
    IN <<FlipDownward(GraphEdges(g0), 1, g0), positions>>

-----------------------------------------------------------------------------
(* The scene files the parser is run on: objects 1..n declared in id order, *)
(* each at an absolute pose or relative to any other object.                *)

AbsPositions == {<<0, 0, 4>>, <<12, 0, 12>>}
Translations == {<<0, 0, 8>>, <<1, 0, -8>>}

RecordsFor(i, n) ==
    {AbsRecord(i, X) : X \in AbsPositions}
    \cup {RelRecord(i, p, t) : p \in (1..n) \ {i}, t \in Translations}

RECURSIVE FilesOf(_, _)
FilesOf(n, i) ==
    IF i = 0 THEN {<<>>}
    ELSE {Append(f, r) : f \in FilesOf(n, i - 1), r \in RecordsFor(i, n)}

SceneFiles == UNION {FilesOf(n, n) : n \in 1..MaxObjects}

(* The target scenes of the orchestrator: stacks as the generator writes    *)
(* them, object i a new base or stacked on object i - 1.                    *)

RECURSIVE StackFilesOf(_)
StackFilesOf(i) ==
    IF i = 1 THEN {<<AbsRecord(1, <<0, 0, CUBE_SIZE \div 2>>)>>}
    ELSE {Append(f, r) : f \in StackFilesOf(i - 1),
                         r \in {AbsRecord(i, <<12 * (i - 1), 0, CUBE_SIZE \div 2>>),
                                RelRecord(i, i - 1, <<0, 0, CUBE_SIZE>>)}}

TargetFiles == UNION {StackFilesOf(n) : n \in 1..MaxObjects}

-----------------------------------------------------------------------------
(* process_g_file, phase by phase *)

ParseIdle ==
    /\ g_content = <<>>
    /\ fpc = "idle"
    /\ object_positions = <<>>
    /\ object_transformations = <<>>
    /\ G = EmptyGraph

ReadLines ==
    /\ fpc = "lines"
    /\ LET parsed == ParseLines(g_content, 1, <<>>, <<>>)
       IN /\ object_positions' = parsed[1]
          /\ object_transformations' = parsed[2]
    /\ fpc' = "transforms"
    /\ UNCHANGED <<g_content, G, mainVars, planVars, obsVars, genVars>>

UpdatePositions ==
    /\ fpc = "transforms"
    /\ object_positions' = ResolveTransforms(object_transformations, 1, object_positions)
    /\ fpc' = "edges"
    /\ UNCHANGED <<g_content, object_transformations, G, mainVars, planVars, obsVars, genVars>>

AddEdges ==
    /\ fpc = "edges"
    /\ G' = AddPairEdges(object_positions, 1, 1, G)
    /\ fpc' = "upward"
    /\ UNCHANGED <<g_content, object_positions, object_transformations,
                   mainVars, planVars, obsVars, genVars>>

EnsureUpward ==
    /\ fpc = "upward"
    /\ G' = FlipDownward(GraphEdges(G), 1, G)
    /\ fpc' = "returned"
    /\ UNCHANGED <<g_content, object_positions, object_transformations,
                   mainVars, planVars, obsVars, genVars>>

-----------------------------------------------------------------------------
(* Graph batches (torch_geometric Data): x has num_nodes rows of 1.0.       *)

convert_to_pyg_data(g) ==
    LET es == GraphEdges(g)
    IN [num_nodes |-> Len(g.nodes),
        edge_index |-> [i \in 1..Len(es) |-> <<es[i].u, es[i].v>>],
        edge_attr |-> [i \in 1..Len(es) |-> es[i].w]]

RECURSIVE MaskSeq(_, _, _)
MaskSeq(s, mask, i) ==
    IF i > Len(s) THEN <<>>
    ELSE (IF mask[i] THEN <<s[i]>> ELSE <<>>) \o MaskSeq(s, mask, i + 1)

remove_node_without_renumbering(data, node_idx) ==
    LET edge_mask == [i \in 1..Len(data.edge_index) |->
                         data.edge_index[i][1] # node_idx /\ data.edge_index[i][2] # node_idx]
    IN [num_nodes |-> data.num_nodes - 1,
        edge_index |-> MaskSeq(data.edge_index, edge_mask, 1),
        edge_attr |-> MaskSeq(data.edge_attr, edge_mask, 1)]
remove_node_and_edges(data, node_idx) ==
    LET edge_mask == [i \in 1..Len(data.edge_index) |->
                         data.edge_index[i][1] # node_idx /\ data.edge_index[i][2] # node_idx]
        kept == MaskSeq(data.edge_index, edge_mask, 1)
        Dec(x) == IF x > node_idx THEN x - 1 ELSE x
    IN [num_nodes |-> data.num_nodes - 1,
        edge_index |-> [i \in 1..Len(kept) |-> <<Dec(kept[i][1]), Dec(kept[i][2])>>],
        edge_attr |-> MaskSeq(data.edge_attr, edge_mask, 1)]

Range0(n) == [i \in 1..n |-> i - 1]
Reverse(s) == [i \in 1..Len(s) |-> s[Len(s) + 1 - i]]
DeleteAt(s, i) == SubSeq(s, 1, i - 1) \o SubSeq(s, i + 1, Len(s))

-----------------------------------------------------------------------------
(* create_plan (planner.py) *)

PlanIdle ==
    /\ ppc = "idle"
    /\ option = 0
    /\ target_pyg = Unbound
    /\ target_pyg_copy = Unbound
    /\ original_indices = <<>>
    /\ removal_order = <<>>
    /\ result = Unbound
    /\ scorer = <<>>
    /\ entry = Unbound

\* Lines 28-29: process_all_g_files on the target folder and the conversion of
\* its first graph, tabulated over the target scenes.
FreshTargetPyg ==
    [f \in TargetFiles |-> convert_to_pyg_data(process_g_file(f)[1])]

\* Entry of create_plan(target_folder, model, graph=g, option=opt): up to the
\* deepcopy.  With option 2 target_pyg is the caller's batch object itself.
CallCreatePlan(opt, g) ==
    LET pyg == IF opt = 1
               THEN Bound(FreshTargetPyg[target])
               ELSE g
    IN /\ option' = opt
       /\ target_pyg' = pyg
       /\ original_indices' = Range0(Val(pyg).num_nodes)
       /\ removal_order' = <<>>
       /\ target_pyg_copy' = pyg
       /\ entry' = pyg
       /\ result' = Unbound
       /\ ppc' = "peel"
       /\ UNCHANGED scorer

\* del original_indices[max_prob_node]
KeepIndices(indices, max_prob_node) == indices
DropFirstIndex(indices, max_prob_node) == Tail(indices)
DropIndex(indices, max_prob_node) == DeleteAt(indices, max_prob_node + 1)

\* The object `graph` names after target_pyg was changed in place.
AliasedGraph(opt, g, pyg) == IF opt = 2 THEN pyg ELSE g

\* model(target_pyg) ... argmax: the loaded model answers a batch it has
\* scored before the same way; a batch it has not yet scored, any node.
Scores(batch, max_prob_node) ==
    /\ max_prob_node \in 0..(batch.num_nodes - 1)
    /\ batch \in DOMAIN scorer => scorer[batch] = max_prob_node
    /\ scorer' = IF batch \in DOMAIN scorer THEN scorer
                 ELSE (batch :> max_prob_node) @@ scorer

\* One iteration of "while target_pyg.num_nodes > 1".
PeelStep ==
    /\ ppc = "peel"
    /\ Val(target_pyg).num_nodes > 1
    /\ \E max_prob_node \in 0..(Val(target_pyg).num_nodes - 1) :
          /\ Scores(Val(target_pyg), max_prob_node)
          /\ removal_order' = Append(removal_order, original_indices[max_prob_node + 1])
          /\ target_pyg' = Bound(remove_node_and_edges(Val(target_pyg), max_prob_node))
          /\ original_indices' = DropIndex(original_indices, max_prob_node)
    /\ graph' = AliasedGraph(option, graph, target_pyg')
    /\ UNCHANGED <<ppc, option, target_pyg_copy, result, entry>>
    /\ UNCHANGED <<pc, target, plan, building_order, num_objects, objective_realized,
                   last_state, states, checkpoint_counter, obj_index, ret, config>>
    /\ UNCHANGED <<parseVars, obsVars, genVars>>

\* "if target_pyg.num_nodes == 1" and the return.
PlanReturn ==
    /\ ppc = "peel"
    /\ Val(target_pyg).num_nodes = 1
    /\ LET remaining_node_original_index == original_indices[1]
           step_forward == remove_node_and_edges(Val(target_pyg_copy),
                                                 remaining_node_original_index)
       IN /\ removal_order' = Append(removal_order, remaining_node_original_index)
          /\ target_pyg_copy' = Bound(step_forward)
          /\ result' = Bound(<<Reverse(removal_order'), step_forward>>)
    /\ ppc' = "returned"
    /\ UNCHANGED <<option, target_pyg, original_indices, scorer, entry>>
    /\ UNCHANGED <<parseVars, mainVars, obsVars, genVars>>

\* No node at all: neither the loop nor the if runs and the return statement
\* reads the unassigned step_forward (UnboundLocalError), which ends main().
PlanRaise ==
    /\ ppc = "peel"
    /\ Val(target_pyg).num_nodes = 0
    /\ ppc' = "raised"
    /\ pc' = "raised"
    /\ UNCHANGED <<option, target_pyg, target_pyg_copy, original_indices,
                   removal_order, result, scorer, entry>>
    /\ UNCHANGED <<config, target, plan, building_order, num_objects, objective_realized,
                   last_state, states, checkpoint_counter, obj_index, ret, graph>>
    /\ UNCHANGED <<parseVars, obsVars, genVars>>

-----------------------------------------------------------------------------
(* main (main.py) *)

\* q, ret, komo = optimize(obj_index, config): the solver's flag is its own.
Optimize(idx, feasible) ==
    /\ obj_index' = Bound(idx)
    /\ ret' = Bound(feasible)
    /\ optimized' = optimized \cup {idx}
    /\ solves' = solves \cup {feasible}
    /\ fresh' = TRUE

\* komo.getFrameState(len(waypoints) - 1) of the solve for idx.
FrameState(idx, feasible) == [object |-> idx, feasible |-> feasible]

\* "if ret.feasible:"
AlwaysFeasible(r) == TRUE
IsFeasible(r) == Val(r)

\* "if checkpoint_counter == num_objects - 1:"
AllPlacedOneLate(counter, n) == counter = n
AllPlaced(counter, n) == counter = n - 1

\* Lines 53-58: parse the target and plan from scratch.
InitialPlan ==
    /\ pc = "start"
    /\ CallCreatePlan(1, Unbound)
    /\ pc' = "planned"
    /\ UNCHANGED <<config, target, plan, building_order, num_objects, objective_realized,
                   last_state, states, checkpoint_counter, obj_index, ret, graph>>
    /\ UNCHANGED <<parseVars, obsVars, genVars>>

\* Lines 58-71.
EnterLoop ==
    /\ pc = "planned"
    /\ ppc = "returned"
    /\ plan' = result
    /\ building_order' = Val(result)[1]
    /\ num_objects' = Len(Val(result)[1])
    /\ objective_realized' = FALSE
    /\ last_state' = Unbound
    /\ states' = <<>>
    /\ checkpoint_counter' = 0
    /\ pc' = "while"
    /\ UNCHANGED <<config, target, obj_index, ret, graph>>
    /\ UNCHANGED <<parseVars, planVars, obsVars, genVars>>

\* Lines 73-76: the loop test and the first-iteration optimize.
LoopTop ==
    /\ pc = "while"
    /\ ~objective_realized
    /\ IF checkpoint_counter = 0
       THEN \E feasible \in BOOLEAN : Optimize(building_order[1], feasible)
       ELSE UNCHANGED <<obj_index, ret, optimized, solves, fresh>>
    /\ plans_in_iter' = 0
    /\ pc' = "if_feasible"
    /\ UNCHANGED last_test
    /\ UNCHANGED <<config, target, plan, building_order, num_objects, objective_realized,
                   last_state, states, checkpoint_counter, graph>>
    /\ UNCHANGED <<parseVars, planVars, genVars>>

\* Lines 78-86: the feasible branch up to the create_plan call.
Commit ==
    /\ pc = "if_feasible"
    /\ IsFeasible(ret)
    /\ config' = IF checkpoint_counter # 0 THEN last_state ELSE config
    /\ checkpoint_counter' = checkpoint_counter + 1
    /\ graph' = Bound(Val(plan)[2])
    /\ CallCreatePlan(2, Bound(Val(plan)[2]))
    /\ pc' = "replanned"
    /\ last_test' = Bound(TRUE)
    /\ fresh' = FALSE
    /\ plans_in_iter' = plans_in_iter + 1
    /\ UNCHANGED <<optimized, solves>>
    /\ UNCHANGED <<target, plan, building_order, num_objects, objective_realized,
                   last_state, states, obj_index, ret>>
    /\ UNCHANGED <<parseVars, genVars>>

\* Lines 86-105: take the plan, optimize its first object, record the frame.
Advance ==
    /\ pc = "replanned"
    /\ ppc = "returned"
    /\ plan' = result
    /\ building_order' = Val(result)[1]
    /\ \E feasible \in BOOLEAN :
          /\ Optimize(building_order'[1], feasible)
          /\ states' = Append(states, FrameState(building_order'[1], feasible))
          /\ last_state' = Bound(FrameState(building_order'[1], feasible))
    /\ IF AllPlaced(checkpoint_counter, num_objects)
       THEN objective_realized' = TRUE /\ pc' = "done"
       ELSE objective_realized' = objective_realized /\ pc' = "iter_end"
    /\ UNCHANGED <<last_test, plans_in_iter>>
    /\ UNCHANGED <<config, target, num_objects, checkpoint_counter, graph>>
    /\ UNCHANGED <<parseVars, planVars, genVars>>

\* Lines 106-111: the infeasible branch up to the create_plan call.
Replan ==
    /\ pc = "if_feasible"
    /\ ~IsFeasible(ret)
    /\ IF checkpoint_counter = 0
       THEN CallCreatePlan(1, Unbound)
       ELSE CallCreatePlan(2, graph)
    /\ pc' = "retried"
    /\ last_test' = Bound(FALSE)
    /\ fresh' = FALSE
    /\ plans_in_iter' = plans_in_iter + 1
    /\ UNCHANGED <<optimized, solves>>
    /\ UNCHANGED <<config, target, plan, building_order, num_objects, objective_realized,
                   last_state, states, checkpoint_counter, obj_index, ret, graph>>
    /\ UNCHANGED <<parseVars, genVars>>

\* Lines 109/111: building_order = create_plan(...)[0].
TakeRetry ==
    /\ pc = "retried"
    /\ ppc = "returned"
    /\ building_order' = Val(result)[1]
    /\ pc' = "iter_end"
    /\ UNCHANGED <<config, target, plan, num_objects, objective_realized,
                   last_state, states, checkpoint_counter, obj_index, ret, graph>>
    /\ UNCHANGED <<parseVars, planVars, obsVars, genVars>>

\* End of the loop body: back to the while test.
LoopBack ==
    /\ pc = "iter_end"
    /\ pc' = "while"
    /\ UNCHANGED <<config, target, plan, building_order, num_objects, objective_realized,
                   last_state, states, checkpoint_counter, obj_index, ret, graph>>
    /\ UNCHANGED <<parseVars, planVars, obsVars, genVars>>

MainIdle ==
    /\ pc = "idle"
    /\ target = <<>>
    /\ plan = Unbound
    /\ building_order = <<>>
    /\ num_objects = 0
    /\ objective_realized = FALSE
    /\ last_state = Unbound
    /\ states = <<>>
    /\ checkpoint_counter = 0
    /\ obj_index = Unbound
    /\ ret = Unbound
    /\ graph = Unbound
    /\ config = Unbound
    /\ optimized = {}
    /\ solves = {}
    /\ fresh = FALSE
    /\ last_test = Unbound
    /\ plans_in_iter = 0

GenIdle ==
    /\ gpc = "idle"
    /\ pattern = "none"
    /\ gen_n = 0
    /\ objects = <<>>
    /\ all_groupings = <<>>
    /\ sampled_groupings = <<>>
    /\ group = <<>>
    /\ out_file = <<>>

\* main() on a target folder holding one scene file.
Init ==
    /\ ParseIdle
    /\ GenIdle
    /\ PlanIdle
    /\ pc = "start"
    /\ target \in TargetFiles
    /\ plan = Unbound
    /\ building_order = <<>>
    /\ num_objects = 0
    /\ objective_realized = FALSE
    /\ last_state = Unbound
    /\ states = <<>>
    /\ checkpoint_counter = 0
    /\ obj_index = Unbound
    /\ ret = Unbound
    /\ graph = Unbound
    /\ config = Unbound
    /\ optimized = {}
    /\ solves = {}
    /\ fresh = FALSE
    /\ last_test = Unbound
    /\ plans_in_iter = 0

Next ==
    \/ InitialPlan
    \/ EnterLoop
    \/ LoopTop
    \/ Commit
    \/ Advance
    \/ Replan
    \/ TakeRetry
    \/ LoopBack
    \/ PeelStep
    \/ PlanReturn
    \/ PlanRaise

Spec == Init /\ [][Next]_vars

\* The interpreter runs the next statement: main() never pauses by itself.
FairSpec == Spec /\ WF_vars(Next)

\* process_g_file on one scene file.
InitParse ==
    /\ MainIdle
    /\ GenIdle
    /\ PlanIdle
    /\ g_content \in SceneFiles
    /\ fpc = "lines"
    /\ object_positions = <<>>
    /\ object_transformations = <<>>
    /\ G = EmptyGraph

NextParse ==
    \/ ReadLines
    \/ UpdatePositions
    \/ AddEdges
    \/ EnsureUpward

SpecParse == InitParse /\ [][NextParse]_vars

-----------------------------------------------------------------------------
(* generate_dataset.py.  The horizontal coordinates, jitters and angles the *)
(* generators draw are random reals that no record's kind, id or parent     *)
(* depends on; they are written as 0.                                       *)

SeqToSet(s) == {s[i] : i \in 1..Len(s)}

\* Prepend x to every tuple of a list of tuples.
Prepend(x, tuples) == [i \in 1..Len(tuples) |-> <<x>> \o tuples[i]]

\* itertools.combinations(objs, k), in its order.
RECURSIVE combinations(_, _)
combinations(objs, k) ==
    IF k = 0 THEN <<<<>>>>
    ELSE IF Len(objs) < k THEN <<>>
    ELSE Prepend(Head(objs), combinations(Tail(objs), k - 1))
         \o combinations(Tail(objs), k)

\* chain(*[combinations(objects, i) for i in range(1, num_objects + 1)])
RECURSIVE chain_combinations(_, _, _)
chain_combinations(objs, i, n) ==
    IF i > n THEN <<>>
    ELSE combinations(objs, i) \o chain_combinations(objs, i + 1, n)

\* objects.remove(obj)
ListRemove(s, obj) == DeleteAt(s, CHOOSE i \in 1..Len(s) : s[i] = obj
                                     /\ \A j \in 1..(i - 1) : s[j] # obj)

\* all_groupings = [g for g in all_groupings if obj not in g]
KeepAllGroupings(groupings, obj) == groupings
WithoutObject(groupings, obj) ==
    SelectSeq(groupings, LAMBDA g : obj \notin SeqToSet(g))

\* Lines 58-61 of generate_instance.
EnterInstance ==
    /\ gpc = "generate_instance"
    /\ objects' = [i \in 1..gen_n |-> i]
    /\ all_groupings' = chain_combinations(objects', 1, gen_n)
    /\ sampled_groupings' = <<>>
    /\ gpc' = "while"
    /\ UNCHANGED <<pattern, gen_n, group, out_file>>
    /\ UNCHANGED <<parseVars, mainVars, planVars, obsVars>>

\* Lines 62-64: group = random.choice(all_groupings); on an empty list
\* random.choice raises and nothing further happens.
ChooseGroup ==
    /\ gpc = "while"
    /\ objects # <<>>
    /\ \E i \in 1..Len(all_groupings) :
          /\ group' = all_groupings[i]
          /\ sampled_groupings' = Append(sampled_groupings, all_groupings[i])
    /\ gpc' = "for"
    /\ UNCHANGED <<pattern, gen_n, objects, all_groupings, out_file>>
    /\ UNCHANGED <<parseVars, mainVars, planVars, obsVars>>

\* Lines 65-67: one object of the chosen group; `group` holds those left.
RemoveObject ==
    /\ gpc = "for"
    /\ group # <<>>
    /\ Head(group) \in SeqToSet(objects)
    /\ objects' = ListRemove(objects, Head(group))
    /\ all_groupings' = WithoutObject(all_groupings, Head(group))
    /\ group' = Tail(group)
    /\ gpc' = IF group' = <<>> THEN "while" ELSE "for"
    /\ UNCHANGED <<pattern, gen_n, sampled_groupings, out_file>>
    /\ UNCHANGED <<parseVars, mainVars, planVars, obsVars>>

\* Line 69: return sampled_groupings.
ReturnInstance ==
    /\ gpc = "while"
    /\ objects = <<>>
    /\ gpc' = "write"
    /\ UNCHANGED <<pattern, gen_n, objects, all_groupings, sampled_groupings,
                   group, out_file>>
    /\ UNCHANGED <<parseVars, mainVars, planVars, obsVars>>

\* Lines 111-121: the lines of one stack.
StackLinesTopFirst(instance) ==
    [j \in 1..Len(instance) |->
        IF j = Len(instance)
        THEN AbsRecord(instance[1], <<0, 0, CUBE_SIZE \div 2>>)
        ELSE RelRecord(instance[Len(instance) + 1 - j], instance[Len(instance) - j],
                       <<0, 0, CUBE_SIZE>>)]
StackLines(instance) ==
    [j \in 1..Len(instance) |->
        IF j = 1
        THEN AbsRecord(instance[1], <<0, 0, CUBE_SIZE \div 2>>)
        ELSE RelRecord(instance[j], instance[j - 1], <<0, 0, CUBE_SIZE>>)]

RECURSIVE AllStackLines(_, _)
AllStackLines(instances, idx) ==
    IF idx > Len(instances) THEN <<>>
    ELSE StackLines(instances[idx]) \o AllStackLines(instances, idx + 1)

\* Lines 104-121 of generate_random_stacks_pattern.
WriteRandomStacks ==
    /\ gpc = "write"
    /\ pattern = "random_stacks"
    /\ out_file' = AllStackLines(sampled_groupings, 1)
    /\ gpc' = "written"
    /\ UNCHANGED <<pattern, gen_n, objects, all_groupings, sampled_groupings, group>>
    /\ UNCHANGED <<parseVars, mainVars, planVars, obsVars>>

\* Lines 141-157: the layers of a pyramid, from `layer` on.
RECURSIVE PyramidLines(_, _, _)
PyramidLines(current_layer_objects, layer, object_count) ==
    IF current_layer_objects <= 0 THEN <<>>
    ELSE [j \in 1..current_layer_objects |->
             AbsRecord(object_count + j,
                       <<0, 0, (CUBE_SIZE \div 2) + CUBE_SIZE * layer>>)]
         \o PyramidLines(current_layer_objects - 1, layer + 1,
                         object_count + current_layer_objects)

WritePyramid ==
    /\ gpc = "write"
    /\ pattern = "pyramid"
    /\ out_file' = PyramidLines(gen_n, 0, 0)
    /\ gpc' = "written"
    /\ UNCHANGED <<pattern, gen_n, objects, all_groupings, sampled_groupings, group>>
    /\ UNCHANGED <<parseVars, mainVars, planVars, obsVars>>

\* tz = CUBE_SIZE + random.uniform(0.5, 0): the gap is 0 to 0.5.
Gaps == {0, 5}
Base(id) == AbsRecord(id, <<0, 0, 0>>)
On(id, base_obj_id, gap) == RelRecord(id, base_obj_id, <<CUBE_SIZE \div 2, 0, CUBE_SIZE + gap>>)
OnNeg(id, base_obj_id, gap) == RelRecord(id, base_obj_id, <<-(CUBE_SIZE \div 2), 0, CUBE_SIZE + gap>>)

\* Lines 174-189.
Pattern1Lines(gap) ==
    <<Base(1), Base(2), Base(3), On(4, 1, gap), On(5, 2, gap), On(6, 4, gap)>>
\* Lines 206-217.
Pattern2Lines(gap) ==
    <<Base(1), Base(2), OnNeg(3, 1, gap), OnNeg(4, 2, gap)>>
\* Lines 234-248.
Pattern3Lines(gap) ==
    <<Base(1), Base(2), On(3, 1, gap), On(4, 2, gap), On(5, 3, gap)>>
\* Lines 265-276.
Pattern4Lines(gap) ==
    <<Base(1), Base(2), On(3, 1, gap), On(4, 3, gap)>>

WritePattern1 ==
    /\ gpc = "write"
    /\ pattern = "pattern1"
    /\ \E gap \in Gaps : out_file' = Pattern1Lines(gap)
    /\ gpc' = "written"
    /\ UNCHANGED <<pattern, gen_n, objects, all_groupings, sampled_groupings, group>>
    /\ UNCHANGED <<parseVars, mainVars, planVars, obsVars>>

WritePattern2 ==
    /\ gpc = "write"
    /\ pattern = "pattern2"
    /\ \E gap \in Gaps : out_file' = Pattern2Lines(gap)
    /\ gpc' = "written"
    /\ UNCHANGED <<pattern, gen_n, objects, all_groupings, sampled_groupings, group>>
    /\ UNCHANGED <<parseVars, mainVars, planVars, obsVars>>

WritePattern3 ==
    /\ gpc = "write"
    /\ pattern = "pattern3"
    /\ \E gap \in Gaps : out_file' = Pattern3Lines(gap)
    /\ gpc' = "written"
    /\ UNCHANGED <<pattern, gen_n, objects, all_groupings, sampled_groupings, group>>
    /\ UNCHANGED <<parseVars, mainVars, planVars, obsVars>>

WritePattern4 ==
    /\ gpc = "write"
    /\ pattern = "pattern4"
    /\ \E gap \in Gaps : out_file' = Pattern4Lines(gap)
    /\ gpc' = "written"
    /\ UNCHANGED <<pattern, gen_n, objects, all_groupings, sampled_groupings, group>>
    /\ UNCHANGED <<parseVars, mainVars, planVars, obsVars>>

\* One file of one generator; random stacks start in generate_instance.
InitGen ==
    /\ ParseIdle
    /\ MainIdle
    /\ PlanIdle
    /\ pattern \in {"random_stacks", "pyramid", "pattern1", "pattern2",
                    "pattern3", "pattern4"}
    /\ gen_n \in IF pattern \in {"random_stacks", "pyramid"} THEN 1..MaxStackObjects ELSE {0}
    /\ gpc = IF pattern = "random_stacks" THEN "generate_instance" ELSE "write"
    /\ objects = <<>>
    /\ all_groupings = <<>>
    /\ sampled_groupings = <<>>
    /\ group = <<>>
    /\ out_file = <<>>

NextGen ==
    \/ EnterInstance
    \/ ChooseGroup
    \/ RemoveObject
    \/ ReturnInstance
    \/ WriteRandomStacks
    \/ WritePyramid
    \/ WritePattern1
    \/ WritePattern2
    \/ WritePattern3
    \/ WritePattern4

SpecGen == InitGen /\ [][NextGen]_vars

\* The generator runs to the end of each file: it never pauses by itself.
FairSpecGen == SpecGen /\ WF_vars(NextGen)

-----------------------------------------------------------------------------
(* Properties *)

SceneObjects == 0..(Len(target) - 1)
EveryObjectOptimized == \A o \in SceneObjects : o \in optimized
EverySolveInfeasible == TRUE \notin solves
EverySolveFeasible == FALSE \notin solves

\* C1: when main() reports success on a scene of n >= 2 objects, every object
\* identifier 0..n-1 of the scene has been the obj_index of an optimize() call.
C1_SuccessPlacesEveryObject ==
    (objective_realized /\ Len(target) >= 2) => EveryObjectOptimized

\* C2: as long as every solve has returned infeasible, checkpoint_counter is 0,
\* objective_realized is not set, and every loop iteration that reaches its end
\* has called create_plan.
C2_InfeasibleMakesNoProgress ==
    EverySolveInfeasible =>
        /\ checkpoint_counter = 0
        /\ ~objective_realized
        /\ pc = "iter_end" => plans_in_iter >= 1

\* C2 witness: an iteration ends after an infeasible solve and a replanning.
C2_Witness ==
    /\ pc = "iter_end"
    /\ solves = {FALSE}
    /\ plans_in_iter = 1
    /\ Len(target) >= 2

PlannedOrder == Val(result)[1]
Occurrences(s, x) == Cardinality({i \in 1..Len(s) : s[i] = x})

\* C3: create_plan entered with a batch of k >= 1 nodes returns a building
\* order of length k holding each of 0..k-1 exactly once.
C3_OrderIsPermutation ==
    ppc = "returned" =>
        /\ Len(PlannedOrder) = Val(entry).num_nodes
        /\ \A id \in 0..(Val(entry).num_nodes - 1) : Occurrences(PlannedOrder, id) = 1

\* C3 witness: create_plan has returned for a batch of MaxObjects nodes.
C3_Witness ==
    /\ ppc = "returned"
    /\ Val(entry).num_nodes = MaxObjects
    /\ Len(PlannedOrder) = MaxObjects

\* C4: when the loop tests ret.feasible after having found it False, an
\* optimize() call has been made in between (ret is that call's result).
C4_RetryBeforeNextTest ==
    (pc = "if_feasible" /\ last_test = Bound(FALSE)) => fresh

ReturnedEdges == {G.edges[i] : i \in 1..Len(G.edges)}

\* C5: every edge of the graph process_g_file returns has a weight whose Z
\* component is not negative.
C5_EdgesPointUpward ==
    fpc = "returned" => \A e \in ReturnedEdges : e.w[3] >= 0

\* C5 witness: a returned graph holding an edge that was turned around
\* (from the higher id to the lower one).
C5_Witness ==
    /\ fpc = "returned"
    /\ \E e \in ReturnedEdges : e.u > e.v /\ e.w[3] > 0

Remaining == SeqToSet(objects)
Candidates == SeqToSet(all_groupings)
InInstanceLoop == gpc \in {"while", "for"}
InstanceReturned == pattern = "random_stacks" /\ gpc \in {"write", "written"}
StacksHolding(obj) ==
    {i \in 1..Len(sampled_groupings) : obj \in SeqToSet(sampled_groupings[i])}

C6_LoopInvariant ==
    InInstanceLoop =>
        /\ \A g \in Candidates : SeqToSet(g) \subseteq Remaining
        /\ objects # <<>> => all_groupings # <<>>

C6_StacksPartition ==
    InstanceReturned =>
        /\ \A obj \in 1..gen_n : Cardinality(StacksHolding(obj)) = 1
        /\ \A i \in 1..Len(sampled_groupings) :
              /\ sampled_groupings[i] # <<>>
              /\ SeqToSet(sampled_groupings[i]) \subseteq 1..gen_n
              /\ Cardinality(SeqToSet(sampled_groupings[i])) = Len(sampled_groupings[i])

\* C6: generate_instance(n), n >= 1, terminates; the stacks it returns hold
\* every object 1..n exactly once and none is empty; inside its loop every
\* candidate subset is made of remaining objects only, and the candidate list
\* is non-empty while objects remain.
C6_InstancePartitions ==
    /\ [](C6_LoopInvariant /\ C6_StacksPartition)
    /\ <>(pattern # "random_stacks" \/ gpc = "write")

\* C6 witness: generate_instance returned more than one stack, one of them
\* with more than one object.
C6_Witness ==
    /\ InstanceReturned
    /\ Len(sampled_groupings) >= 2
    /\ \E i \in 1..Len(sampled_groupings) : Len(sampled_groupings[i]) >= 2

\* C7: in a written file every parent-relative record's parent is the id of
\* a record on an earlier line.
C7_ParentOnEarlierLine ==
    \A i \in 1..Len(out_file) :
        out_file[i].kind = "Q" =>
            \E j \in 1..(i - 1) : out_file[j].id = out_file[i].parent

\* C7 witness: a random-stacks file was written with a stack three high.
C7_Witness ==
    /\ gpc = "written"
    /\ pattern = "random_stacks"
    /\ \E i \in 1..Len(out_file), j \in 1..Len(out_file) :
          /\ out_file[i].kind = "Q" /\ out_file[j].kind = "Q"
          /\ out_file[i].parent = out_file[j].id

\* The residual index i of a batch that lost node `removed`, as an index of
\* the batch before.
MapBack(i, removed) == IF i >= removed THEN i + 1 ELSE i

\* The first incremental call has returned: plan still holds the from-scratch
\* building order B and the residual R the call was entered with.
FirstIncrementalReturned ==
    /\ pc = "replanned"
    /\ ppc = "returned"
    /\ option = 2
    /\ checkpoint_counter = 1
    /\ entry = Bound(Val(plan)[2])
FromScratchOrder == Val(plan)[1]
IncrementalAsObjects ==
    [i \in 1..Len(PlannedOrder) |-> MapBack(PlannedOrder[i], FromScratchOrder[1])]

\* C8 as stated: the incremental order lists the objects still to place in
\* the relative order the from-scratch order B has them.
C8_SameRelativeOrder ==
    FirstIncrementalReturned => IncrementalAsObjects = Tail(FromScratchOrder)

\* C8 amended: the incremental order on R, read as objects of the original
\* graph, holds exactly the k-1 objects of B after its first, each once (their
\* relative order may differ from B's).
C8_SameObjects ==
    FirstIncrementalReturned =>
        /\ Len(IncrementalAsObjects) = Len(FromScratchOrder) - 1
        /\ \A o \in SeqToSet(Tail(FromScratchOrder)) :
              Occurrences(IncrementalAsObjects, o) = 1

\* C8 witness: an incremental order over two remaining objects that has them
\* in the other order than B.
C8_Witness ==
    /\ FirstIncrementalReturned
    /\ Len(FromScratchOrder) = 3
    /\ IncrementalAsObjects # Tail(FromScratchOrder)

Resolved == DictKeys(object_positions)
NumResolved == Len(object_positions)
EdgesBetween(a, b) ==
    {i \in 1..Len(G.edges) : {G.edges[i].u, G.edges[i].v} = {a, b}}

\* Node set, one edge per pair, weights, and the batch made of the graph.
GraphMatchesPositions ==
    /\ NodeSet(G) = Resolved
    /\ Len(G.nodes) = NumResolved
    /\ Len(G.edges) * 2 = NumResolved * (NumResolved - 1)
    /\ \A a \in Resolved, b \in Resolved : a < b => Cardinality(EdgesBetween(a, b)) = 1
    /\ \A e \in ReturnedEdges :
          e.w = VecSub(DictGet(object_positions, e.v), DictGet(object_positions, e.u))
    /\ convert_to_pyg_data(G).num_nodes = NumResolved
    /\ Len(convert_to_pyg_data(G).edge_index) * 2 = NumResolved * (NumResolved - 1)
    /\ Len(convert_to_pyg_data(G).edge_attr) = Len(convert_to_pyg_data(G).edge_index)

\* C9 as stated: for n >= 1 resolved objects the graph has the n resolved ids
\* as nodes, one edge per unordered pair, each weighted position[v] - position[u].
C9_GraphOfResolvedObjects ==
    (fpc = "returned" /\ NumResolved >= 1) => GraphMatchesPositions

\* C9 amended: for n >= 2 resolved objects the graph has the n resolved ids as
\* nodes, one edge per unordered pair (n(n-1)/2), each weighted
\* position[v] - position[u]; a single resolved object gives a graph with no
\* node and no edge.
C9_GraphOfTwoOrMoreObjects ==
    fpc = "returned" =>
        /\ NumResolved >= 2 => GraphMatchesPositions
        /\ NumResolved = 1 => (G.nodes = <<>> /\ G.edges = <<>>)

\* C9 witness: a file whose MaxObjects objects all resolve, one of them through
\* its parent, with an edge that was turned around.
C9_Witness ==
    /\ fpc = "returned"
    /\ NumResolved = MaxObjects
    /\ object_transformations # <<>>
    /\ \E e \in ReturnedEdges : e.u > e.v

C10_Counters ==
    EverySolveFeasible =>
        /\ checkpoint_counter <= IF Len(target) >= 2 THEN Len(target) - 1 ELSE 0
        /\ pc \in {"iter_end", "done"} => Len(states) = checkpoint_counter
        /\ pc = "done" => /\ objective_realized
                          /\ checkpoint_counter = Len(target) - 1
                          /\ Len(states) = Len(target) - 1

\* C10: if every optimize() returns feasible, main() on a scene of n >= 2
\* objects reports success; checkpoint_counter only ever grows by one, never
\* past n-1, and is n-1 at the end, as is len(states); at the end of every
\* feasible iteration len(states) = checkpoint_counter.
C10_FeasibleRunSucceeds ==
    /\ []C10_Counters
    /\ [][checkpoint_counter' \in {checkpoint_counter, checkpoint_counter + 1}]_vars
    /\ <>(~EverySolveFeasible \/ Len(target) < 2 \/ objective_realized)

\* C10 witness: success on a scene of MaxObjects objects after feasible solves
\* only.
C10_Witness ==
    /\ pc = "done"
    /\ EverySolveFeasible
    /\ Len(target) = MaxObjects
    /\ checkpoint_counter = MaxObjects - 1

ResidualBatch == Val(result)[2]
RemovedFirst == PlannedOrder[1]
\* The input edges (by place in the entry batch) not touching the removed node.
KeptEdges ==
    {i \in 1..Len(Val(entry).edge_index) :
        /\ Val(entry).edge_index[i][1] # RemovedFirst
        /\ Val(entry).edge_index[i][2] # RemovedFirst}
PlaceAmongKept(i) == Cardinality({j \in KeptEdges : j <= i})
Renumbered(x) == IF x > RemovedFirst THEN x - 1 ELSE x

\* C11: the residual batch create_plan returns is the batch it was entered
\* with less the first element of the returned building order: k-1 nodes, the
\* input edges not incident to that node in their order, each with its own
\* edge feature, endpoints above the removed index lowered by one and all
\* within 0..k-2.
C11_ResidualIsEntryLessFirst ==
    ppc = "returned" =>
        /\ ResidualBatch.num_nodes = Val(entry).num_nodes - 1
        /\ Len(ResidualBatch.edge_index) = Cardinality(KeptEdges)
        /\ Len(ResidualBatch.edge_attr) = Cardinality(KeptEdges)
        /\ \A i \in KeptEdges :
              /\ ResidualBatch.edge_index[PlaceAmongKept(i)]
                    = <<Renumbered(Val(entry).edge_index[i][1]),
                        Renumbered(Val(entry).edge_index[i][2])>>
              /\ ResidualBatch.edge_attr[PlaceAmongKept(i)] = Val(entry).edge_attr[i]
        /\ \A j \in 1..Len(ResidualBatch.edge_index) :
              /\ ResidualBatch.edge_index[j][1] \in 0..(Val(entry).num_nodes - 2)
              /\ ResidualBatch.edge_index[j][2] \in 0..(Val(entry).num_nodes - 2)

\* C11 witness: create_plan returned for a batch of MaxObjects nodes whose
\* first-built node is not the last index, with an edge left whose endpoint
\* had to be lowered.
C11_Witness ==
    /\ ppc = "returned"
    /\ Val(entry).num_nodes = MaxObjects
    /\ RemovedFirst < MaxObjects - 1
    /\ \E i \in KeptEdges : Val(entry).edge_index[i][2] > RemovedFirst

\* The records of the parsed file, by line.
AbsoluteIds == {g_content[i].id - 1 : i \in {j \in 1..Len(g_content) : g_content[j].kind = "X"}}
RelativeLines == {i \in 1..Len(g_content) : g_content[i].kind = "Q"}
\* The parent of the relative record on line i is in the position map when
\* that record is processed: it is absolute, or it is a relative object
\* declared on an earlier line that was itself resolved.
ParentKnownAt(i) ==
    \/ g_content[i].parent - 1 \in AbsoluteIds
    \/ \E j \in RelativeLines :
          /\ j < i
          /\ g_content[j].id = g_content[i].parent
          /\ g_content[j].id - 1 \in Resolved

ResolutionFollowsDeclarationOrder ==
    fpc = "returned" =>
        /\ \A i \in 1..Len(g_content) :
              g_content[i].kind = "X" =>
                  /\ g_content[i].id - 1 \in Resolved
                  /\ DictGet(object_positions, g_content[i].id - 1) = g_content[i].v
        /\ \A i \in RelativeLines :
              IF ParentKnownAt(i)
              THEN /\ g_content[i].id - 1 \in Resolved
                   /\ DictGet(object_positions, g_content[i].id - 1)
                         = VecAdd(DictGet(object_positions, g_content[i].parent - 1),
                                  g_content[i].v)
              ELSE /\ g_content[i].id - 1 \notin Resolved
                   /\ g_content[i].id - 1 \notin NodeSet(G)

\* C12: process_g_file resolves relative objects in one pass in declaration
\* order: with its parent known when processed the object gets parent
\* position + translation, otherwise it is left out of the position map and
\* the graph; absolute objects are always resolved; and nothing is raised:
\* every file reaches the return.
C12_SinglePassResolution ==
    /\ ResolutionFollowsDeclarationOrder
    /\ fpc # "returned" => ENABLED NextParse

\* C12 witness: a relative object is left out because its relative parent is
\* declared after it, while that parent and an absolute object are resolved.
C12_Witness ==
    /\ fpc = "returned"
    /\ AbsoluteIds # {}
    /\ \E i \in RelativeLines, j \in RelativeLines :
          /\ i < j
          /\ g_content[j].id = g_content[i].parent
          /\ g_content[i].id - 1 \notin Resolved
          /\ g_content[j].id - 1 \in Resolved
          /\ g_content[j].id - 1 \in NodeSet(G)

\* C13: an incremental create_plan call (option=2) returns with the caller's
\* batch object `graph` as it was on entry: same node count, edge list and
\* edge features.
C13_IncrementalLeavesGraphUnchanged ==
    (ppc = "returned" /\ option = 2) =>
        /\ Val(graph).num_nodes = Val(entry).num_nodes
        /\ Val(graph).edge_index = Val(entry).edge_index
        /\ Val(graph).edge_attr = Val(entry).edge_attr

\* C14: every frame state in `states`, and last_state, comes from a solve
\* that returned feasible, and success is reported only when the latest
\* solve returned feasible.
C14_OnlyFeasibleMotionsCommitted ==
    /\ \A i \in 1..Len(states) : states[i].feasible
    /\ last_state # Unbound => Val(last_state).feasible
    /\ objective_realized => Val(ret)

====
